---- MODULE Spec2Model ----
(***************************************************************************)
(* A model of edge-cors (src/unnamed/part_002): the cors(req, res, options) *)
(* decision function, its helpers and the web-platform objects it drives    *)
(* (Headers, Response).  Under Spec one call is in flight at a time and     *)
(* calls follow one another under one configuration object; under           *)
(* SpecConcurrent several calls share the configuration object and are in   *)
(* flight together.  A call yields at the await of line 183 and, under a    *)
(* function origin, at the await of line 149 before it; each action is what *)
(* runs between two yields.                                                 *)
(***************************************************************************)
EXTENDS Integers, Sequences, FiniteSets, TLC

VARIABLES
  options,    \* the caller's configuration object (keys present -> values)
  req,        \* the Request of the current call
  res,        \* the Response object passed to the current call (mutated in place)
  pre,        \* res as it was when cors was called
  opts,       \* the call's working copy of the options (line 181)
  reqOrigin,  \* the call's local reqOrigin (line 147)
  resolved,   \* the value of origin so far (line 148): origin itself, or what the
              \* function returned or its promise fulfilled with
  inner,      \* where originHeadersFromReq stands: "idle", "pending" (at line 149,
              \* the promise of origin not settled), "queued" (at line 149, its
              \* resumption queued), "returned" or "threw"
  originHeaders, \* what originHeadersFromReq returned (lines 151-152)
  writes,     \* the set/append operations the call has made on res.headers
  ret,        \* the Response the call returned
  pc,         \* where cors stands: "idle", "awaiting" (at line 183), "returned"
              \* or "threw" (its promise fulfilled or rejected)
  invoked,    \* the invocations of the origin function the call has made
  thrown,     \* what the origin function threw or its promise rejected with so
              \* far in the call, "" when nothing
  failure,    \* what the promise cors returned rejected with, "" when nothing
  earlier,    \* how the origin function answered the call before this one
  calls,      \* calls in flight together: the frame of each
  store,      \* the Response objects those calls were given or made, by identity
  latest      \* the call made last among them, 0 when none was

\* the frame of the one call of Spec
seqVars ==
  <<req, res, pre, opts, reqOrigin, resolved, inner, originHeaders, writes, ret, pc,
    invoked, thrown, failure, earlier>>

\* the calls of SpecConcurrent
concVars == <<calls, store, latest>>

vars == <<options, seqVars, concVars>>

(***************************************************************************)
(* Bounds of the model.                                                     *)
(***************************************************************************)
\* longest origin list that is enumerated
MaxOriginList == 2
\* most Vary entries an incoming response already carries
MaxPreVary == 1
\* most calls in flight together
MaxCalls == 2

(***************************************************************************)
(* JavaScript values: a type tag and one payload field per type.            *)
(***************************************************************************)
Val(t, b, s, n, l) == [t |-> t, b |-> b, s |-> s, n |-> n, l |-> l]
Undef == Val("undefined", FALSE, "", 0, <<>>)
Null == Val("null", FALSE, "", 0, <<>>)
Bool(b) == Val("boolean", b, "", 0, <<>>)
Str(s) == Val("string", FALSE, s, 0, <<>>)
Num(n) == Val("number", FALSE, "", n, <<>>)
Re(src) == Val("regexp", FALSE, src, 0, <<>>)
Arr(l) == Val("array", FALSE, "", 0, l)
Fn == Val("function", FALSE, "", 0, <<>>)
\* not a value: marks a key an object literal leaves out
Absent == Val("absent", FALSE, "", 0, <<>>)

\* ToBoolean
Truthy(v) ==
  CASE v.t = "boolean" -> v.b
    [] v.t = "string" -> v.s # ""
    [] v.t = "number" -> v.n # 0
    [] v.t \in {"undefined", "null"} -> FALSE
    [] OTHER -> TRUE

\* a ?? b
Coalesce(a, b) == IF a.t \in {"undefined", "null"} THEN b ELSE a

\* a || b
OrElse(a, b) == IF Truthy(a) THEN a ELSE b

\* decimal digits of a natural number, as String(n) gives them
Digit(d) == <<"0", "1", "2", "3", "4", "5", "6", "7", "8", "9">>[d + 1]
RECURSIVE StringOf(_)
StringOf(n) == IF n < 10 THEN Digit(n) ELSE StringOf(n \div 10) \o Digit(n % 10)

\* Array.prototype.join on an array of strings
RECURSIVE Join(_, _)
Join(l, sep) ==
  IF l = <<>> THEN ""
  ELSE IF Len(l) = 1 THEN l[1]
  ELSE l[1] \o sep \o Join(Tail(l), sep)

\* the strings of an array value
Strings(a) == [i \in DOMAIN a.l |-> a.l[i].s]

EndsWith(s, suffix) ==
  /\ Len(s) >= Len(suffix)
  /\ SubSeq(s, Len(s) - Len(suffix) + 1, Len(s)) = suffix

\* RegExp.prototype.test for the patterns in use, each a literal anchored at the end
RegExpTest(re, s) ==
  CASE re.s = "foo\\.com$" -> EndsWith(s, "foo.com")
    [] re.s = "vercel\\.com$" -> EndsWith(s, "vercel.com")

(***************************************************************************)
(* Objects: the keys present and their values.                              *)
(***************************************************************************)
EmptyObject == [k \in {} |-> Undef]

\* obj.key
Prop(obj, key) == IF key \in DOMAIN obj THEN obj[key] ELSE Undef

\* Object.assign(target, source): the object target has become
Assign(target, source) ==
  [k \in DOMAIN target \cup DOMAIN source |->
     IF k \in DOMAIN source THEN source[k] ELSE target[k]]

(***************************************************************************)
(* Headers: case-insensitive names, each with the list of values added.     *)
(***************************************************************************)
HeaderNames ==
  {"origin", "access-control-request-headers", "access-control-allow-origin",
   "access-control-allow-methods", "access-control-allow-headers",
   "access-control-allow-credentials", "access-control-expose-headers",
   "access-control-max-age", "content-length", "content-type", "vary"}

\* the names as the source spells them, lower-cased as Headers does
Lower(name) ==
  CASE name = "Origin" -> "origin"
    [] name = "Access-Control-Request-Headers" -> "access-control-request-headers"
    [] name = "Access-Control-Allow-Origin" -> "access-control-allow-origin"
    [] name = "Access-Control-Allow-Methods" -> "access-control-allow-methods"
    [] name = "Access-Control-Allow-Headers" -> "access-control-allow-headers"
    [] name = "Access-Control-Allow-Credentials" -> "access-control-allow-credentials"
    [] name = "Access-Control-Expose-Headers" -> "access-control-expose-headers"
    [] name = "Access-Control-Max-Age" -> "access-control-max-age"
    [] name = "Content-Length" -> "content-length"
    [] name = "Content-Type" -> "content-type"
    [] name = "Vary" -> "vary"
    [] OTHER -> name

\* new Headers()
NewHeaders == [k \in HeaderNames |-> <<>>]

\* headers.get(name): the values joined with ", ", or null
HeadersGet(h, name) ==
  IF h[Lower(name)] = <<>> THEN Null ELSE Str(Join(h[Lower(name)], ", "))

HeadersHas(h, name) == h[Lower(name)] # <<>>

\* headers.set(name, value)
HeadersSet(h, name, value) == [h EXCEPT ![Lower(name)] = <<value>>]

\* headers.append(name, value)
HeadersAppend(h, name, value) == [h EXCEPT ![Lower(name)] = Append(@, value)]

\* new Headers(init): one entry per name of init, holding its combined value
HeadersCopy(h) ==
  [k \in HeaderNames |-> IF h[k] = <<>> THEN <<>> ELSE <<Join(h[k], ", ")>>]

\* the names in the order Headers iterates them (sorted)
HeaderOrder ==
  <<"access-control-allow-credentials", "access-control-allow-headers",
    "access-control-allow-methods", "access-control-allow-origin",
    "access-control-expose-headers", "access-control-max-age",
    "access-control-request-headers", "content-length", "content-type",
    "origin", "vary">>

\* headers.forEach: the (value, key) pairs handed to the callback, in order
RECURSIVE EntriesFrom(_, _)
EntriesFrom(h, i) ==
  IF i > Len(HeaderOrder) THEN <<>>
  ELSE LET k == HeaderOrder[i]
       IN  (IF h[k] = <<>> THEN <<>> ELSE <<[k |-> k, v |-> Join(h[k], ", ")]>>)
             \o EntriesFrom(h, i + 1)
Entries(h) == EntriesFrom(h, 1)

(***************************************************************************)
(* Request and Response.                                                    *)
(***************************************************************************)
\* a Response object: its identity, status, body ("" for null) and headers
Response(ref, status, body, headers) ==
  [ref |-> ref, status |-> status, body |-> body, headers |-> headers]

\* no Response
NoResponse == Response(0, 0, "", NewHeaders)

\* a Response made without the headers accumulated
NewResponseNoHeaders(ref, status, headers) ==
  Response(ref, status.n, "", NewHeaders)

\* a Response made without the status asked for
NewResponseNoStatus(ref, status, headers) ==
  Response(ref, 200, "", HeadersCopy(headers))

\* new Response(null, { status, headers }): a new object, its headers a copy
NewResponse(ref, status, headers) ==
  Response(ref, status.n, "", HeadersCopy(headers))

(***************************************************************************)
(* src/unnamed/part_002                                                     *)
(***************************************************************************)
\* defaults whose methods leave PATCH out
defaultOptionsNoPatch ==
  [k \in {"origin", "methods", "preflightContinue", "optionsSuccessStatus"} |->
     CASE k = "origin" -> Str("*")
       [] k = "methods" -> Str("GET,HEAD,PUT,POST,DELETE")
       [] k = "preflightContinue" -> Bool(FALSE)
       [] k = "optionsSuccessStatus" -> Num(204)]

defaultOptions ==
  [k \in {"origin", "methods", "preflightContinue", "optionsSuccessStatus"} |->
     CASE k = "origin" -> Str("*")
       [] k = "methods" -> Str("GET,HEAD,PUT,PATCH,POST,DELETE")
       [] k = "preflightContinue" -> Bool(FALSE)
       [] k = "optionsSuccessStatus" -> Num(204)]

\* a match that takes a "*" element for a wildcard
RECURSIVE isOriginAllowedWildcard(_, _)
isOriginAllowedWildcard(origin, allowed) ==
  CASE allowed.t = "array" ->
         \E i \in DOMAIN allowed.l : isOriginAllowedWildcard(origin, allowed.l[i])
    [] allowed.t = "string" -> origin = allowed.s \/ allowed.s = "*"
    [] allowed.t = "regexp" -> RegExpTest(allowed, origin)
    [] OTHER -> Truthy(allowed)

RECURSIVE isOriginAllowed(_, _)
isOriginAllowed(origin, allowed) ==
  CASE allowed.t = "array" ->
         \E i \in DOMAIN allowed.l : isOriginAllowed(origin, allowed.l[i])
    [] allowed.t = "string" -> origin = allowed.s
    [] allowed.t = "regexp" -> RegExpTest(allowed, origin)
    [] OTHER -> Truthy(allowed)

\* origin headers that vary on Origin only when the origin is reflected
getOriginHeadersVaryOnMatch(rOrigin, origin) ==
  IF origin = Str("*")
  THEN HeadersSet(NewHeaders, "Access-Control-Allow-Origin", "*")
  ELSE IF origin.t = "string"
  THEN HeadersAppend(
         HeadersSet(NewHeaders, "Access-Control-Allow-Origin", origin.s),
         "Vary", "Origin")
  ELSE IF isOriginAllowed(Coalesce(rOrigin, Str("")).s, origin) /\ Truthy(rOrigin)
  THEN HeadersAppend(
         HeadersSet(NewHeaders, "Access-Control-Allow-Origin", rOrigin.s),
         "Vary", "Origin")
  ELSE NewHeaders

\* the Headers built for a truthy origin value
getOriginHeaders(rOrigin, origin) ==
  IF origin = Str("*")
  THEN HeadersSet(NewHeaders, "Access-Control-Allow-Origin", "*")
  ELSE IF origin.t = "string"
  THEN HeadersAppend(
         HeadersSet(NewHeaders, "Access-Control-Allow-Origin", origin.s),
         "Vary", "Origin")
  ELSE LET allowed == isOriginAllowed(Coalesce(rOrigin, Str("")).s, origin)
           h == IF allowed /\ Truthy(rOrigin)
                THEN HeadersSet(NewHeaders, "Access-Control-Allow-Origin", rOrigin.s)
                ELSE NewHeaders
       IN  HeadersAppend(h, "Vary", "Origin")

\* originHeadersFromReq, line 147
requestOrigin(r) == OrElse(HeadersGet(r.headers, "Origin"), Undef)

\* originHeadersFromReq without its return on a falsy value
originHeadersFromReqNoReturn(rOrigin, value) ==
  [has |-> TRUE, headers |-> getOriginHeaders(rOrigin, value)]

\* originHeadersFromReq, lines 151-152, given the awaited value: has reports
\* whether Headers were returned
originHeadersFromReq(rOrigin, value) ==
  IF ~Truthy(value)
  THEN [has |-> FALSE, headers |-> NewHeaders]
  ELSE [has |-> TRUE, headers |-> getOriginHeaders(rOrigin, value)]

\* line 149: the invocations of origin a call makes, with their arguments
originCalls(origin, rOrigin, r) ==
  IF origin.t = "function" THEN <<[origin |-> rOrigin, req |-> r]>> ELSE <<>>

\* a result stored in the caller's object in place of the function
awaitedValueStored(o, value) ==
  [options |-> [k \in DOMAIN o \cup {"origin"} |-> IF k = "origin" THEN value ELSE o[k]],
   value |-> value]

\* lines 148-149: the local value once the promise of origin has fulfilled, and
\* the caller's object, which the result is not written to
awaitedValue(o, value) == [options |-> o, value |-> value]

\* allowed headers that take an empty string for "not provided"
getAllowedHeadersFalsy(r, allowed) ==
  LET reflect == ~Truthy(allowed)
      a == IF reflect THEN HeadersGet(r.headers, "Access-Control-Request-Headers")
           ELSE IF allowed.t = "array" THEN Str(Join(Strings(allowed), ","))
           ELSE allowed
      h == IF reflect
           THEN HeadersAppend(NewHeaders, "Vary", "Access-Control-Request-Headers")
           ELSE NewHeaders
  IN  IF Truthy(a) THEN HeadersSet(h, "Access-Control-Allow-Headers", a.s) ELSE h

getAllowedHeaders(r, allowed) ==
  LET reflect == ~Truthy(allowed) /\ allowed.t # "string"
      a == IF reflect THEN HeadersGet(r.headers, "Access-Control-Request-Headers")
           ELSE IF allowed.t = "array" THEN Str(Join(Strings(allowed), ","))
           ELSE allowed
      h == IF reflect
           THEN HeadersAppend(NewHeaders, "Vary", "Access-Control-Request-Headers")
           ELSE NewHeaders
  IN  IF Truthy(a) THEN HeadersSet(h, "Access-Control-Allow-Headers", a.s) ELSE h

\* a merge that writes the defaults into the caller's object
MergeOptionsInPlace(defaults, o) ==
  [options |-> Assign(Assign(EmptyObject, defaults), o),
   opts |-> Assign(Assign(EmptyObject, defaults), o)]

\* line 181: the caller's object and the working copy after the merge
MergeOptions(defaults, o) ==
  [options |-> o, opts |-> Assign(Assign(EmptyObject, defaults), o)]

\* res.headers and the operations made on it so far
Target(h, log) == [h |-> h, log |-> log]

set(x, name, value) ==
  Target(HeadersSet(x.h, name, value),
         Append(x.log, [op |-> "set", k |-> Lower(name), v |-> value]))

append(x, name, value) ==
  Target(HeadersAppend(x.h, name, value),
         Append(x.log, [op |-> "append", k |-> Lower(name), v |-> value]))

\* a merge that sets every header, Vary too
mergeHeadersSet(x, v, k) == set(x, k, v)

\* lines 184-187
mergeHeaders(x, v, k) == IF k = "vary" THEN append(x, k, v) ELSE set(x, k, v)

\* source.forEach(mergeHeaders)
RECURSIVE MergeEntries(_, _)
MergeEntries(x, entries) ==
  IF entries = <<>> THEN x
  ELSE MergeEntries(mergeHeaders(x, Head(entries).v, Head(entries).k), Tail(entries))
forEachMerge(x, source) == MergeEntries(x, Entries(source))

\* lines 194-196
withCredentials(x, o) ==
  IF Truthy(Prop(o, "credentials"))
  THEN set(x, "Access-Control-Allow-Credentials", "true")
  ELSE x

\* exposed headers set whenever the option is given, empty or not
withExposedGiven(x, o) ==
  LET e == Prop(o, "exposedHeaders")
      exposed == IF e.t = "array" THEN Str(Join(Strings(e), ",")) ELSE e
  IN  IF e.t # "undefined" THEN set(x, "Access-Control-Expose-Headers", exposed.s)
      ELSE x

\* lines 198-204
withExposed(x, o) ==
  LET e == Prop(o, "exposedHeaders")
      exposed == IF e.t = "array" THEN Str(Join(Strings(e), ",")) ELSE e
  IN  IF Truthy(exposed) THEN set(x, "Access-Control-Expose-Headers", exposed.s) ELSE x

\* lines 208-214
withMethods(x, o) ==
  LET m == Prop(o, "methods")
      methods == IF m.t = "array" THEN Join(Strings(m), ",") ELSE m.s
  IN  IF Truthy(m) THEN set(x, "Access-Control-Allow-Methods", methods) ELSE x

\* a max age tested for truth, not for being a number
withMaxAgeTruthy(x, o) ==
  LET maxAge == Prop(o, "maxAge")
  IN  IF Truthy(maxAge)
      THEN set(x, "Access-Control-Max-Age", StringOf(maxAge.n))
      ELSE x

\* lines 218-220
withMaxAge(x, o) ==
  LET maxAge == Prop(o, "maxAge")
  IN  IF maxAge.t = "number"
      THEN set(x, "Access-Control-Max-Age", StringOf(maxAge.n))
      ELSE x

\* lines 207-226 up to the test of preflightContinue
preflight(x, r, o) ==
  withMaxAge(
    forEachMerge(withMethods(x, o), getAllowedHeaders(r, Prop(o, "allowedHeaders"))),
    o)

\* every request taken for a preflight
isPreflightAlways(r) == TRUE

\* line 207
isPreflight(r) == r.method = "OPTIONS"

\* preflightContinue never honoured
preflightNeverContinues(o) == FALSE

\* line 222
preflightContinues(o) == Truthy(Prop(o, "preflightContinue"))

\* cors, lines 184-229, once originHeadersFromReq has settled with oh: the
\* Response returned, res.headers afterwards and the operations made on it
corsAfterOrigin(r, rs, o, oh) ==
  IF ~oh.has
  THEN [ret |-> rs, headers |-> rs.headers, log |-> <<>>]
  ELSE
    LET x1 == withExposed(
                withCredentials(forEachMerge(Target(rs.headers, <<>>), oh.headers), o),
                o)
    IN  IF isPreflight(r)
        THEN LET x2 == preflight(x1, r, o)
             IN  IF preflightContinues(o)
                 THEN [ret |-> [rs EXCEPT !.headers = x2.h],
                       headers |-> x2.h, log |-> x2.log]
                 ELSE LET x3 == set(x2, "Content-Length", "0")
                      IN  [ret |-> NewResponse(rs.ref + 1,
                                               Prop(o, "optionsSuccessStatus"), x3.h),
                           headers |-> x3.h, log |-> x3.log]
        ELSE [ret |-> [rs EXCEPT !.headers = x1.h], headers |-> x1.h, log |-> x1.log]

\* line 183: the origin handed to originHeadersFromReq
originArg(o) == Coalesce(Prop(o, "origin"), Bool(FALSE))

(***************************************************************************)
(* The inputs: configurations, requests and incoming responses.             *)
(***************************************************************************)
\* an object literal: the keys whose value is not Absent
Object(fields) == [k \in {j \in DOMAIN fields : fields[j] # Absent} |-> fields[k]]

Options(origin, methods, allowed, exposed, credentials, maxAge, continue, status) ==
  Object([k \in {"origin", "methods", "allowedHeaders", "exposedHeaders",
                 "credentials", "maxAge", "preflightContinue",
                 "optionsSuccessStatus"} |->
     CASE k = "origin" -> origin
       [] k = "methods" -> methods
       [] k = "allowedHeaders" -> allowed
       [] k = "exposedHeaders" -> exposed
       [] k = "credentials" -> credentials
       [] k = "maxAge" -> maxAge
       [] k = "preflightContinue" -> continue
       [] k = "optionsSuccessStatus" -> status])

ListsUpTo(S, n) == UNION {[1..k -> S] : k \in 0..n}

StrArr(l) == Arr([i \in DOMAIN l |-> Str(l[i])])

OriginListElems ==
  {Str("https://vercel.com"), Str("*"), Re("foo\\.com$"), Bool(TRUE)}

\* the values of type StaticOrigin
StaticOrigins ==
  {Bool(FALSE), Bool(TRUE), Str(""), Str("*"), Str("https://vercel.com"),
   Re("foo\\.com$")}
    \cup {Arr(l) : l \in ListsUpTo(OriginListElems, MaxOriginList)}

\* what an origin function may resolve to: undefined, or a StaticOrigin that
\* is not a list of several elements
FnResults == {Undef} \cup {v \in StaticOrigins : v.t = "array" => Len(v.l) <= 1}

AllowedHeadersValues ==
  {Absent, Str(""), StrArr(<<>>), Str("header1,header2"),
   StrArr(<<"FIZZ", "buzz">>), StrArr(<<"">>)}

\* every kind of origin, with nothing else set, with everything else set, and
\* with preflightContinue besides
OriginFamily ==
  {Options(o, Absent, Absent, Absent, Absent, Absent, Absent, Absent) :
     o \in StaticOrigins \cup {Absent, Undef, Fn}}
    \cup
  {Options(o, StrArr(<<"FOO", "bar">>), StrArr(<<"FIZZ", "buzz">>),
           StrArr(<<"custom-header1", "custom-header2">>), Bool(TRUE), Num(123),
           p, Num(200)) :
     o \in StaticOrigins \cup {Absent, Undef, Fn}, p \in {Absent, Bool(TRUE)}}

\* every combination of methods, allowedHeaders, credentials, maxAge and
\* preflightContinue, under an origin that is absent, false or true
PreflightFamily ==
  {Options(o, m, a, Absent, c, x, p, Absent) :
     o \in {Absent, Bool(FALSE), Bool(TRUE)},
     m \in {Absent, StrArr(<<"FOO", "bar">>)},
     a \in AllowedHeadersValues,
     c \in {Absent, Bool(TRUE)},
     x \in {Absent, Num(0)},
     p \in {Absent, Bool(TRUE)}}

ExposedHeadersValues ==
  {Absent, Str(""), StrArr(<<>>), Str("custom-header1,custom-header2"),
   StrArr(<<"custom-header1", "custom-header2">>), StrArr(<<"">>)}

MaxAgeValues == {Absent, Num(0), Num(123), Num(86400)}

\* every exposedHeaders with every maxAge, under an origin that is absent, false
\* or true, with and without preflightContinue
ValuesFamily ==
  {Options(o, Absent, Absent, e, Absent, x, p, Absent) :
     o \in {Absent, Bool(FALSE), Bool(TRUE)},
     e \in ExposedHeadersValues,
     x \in MaxAgeValues,
     p \in {Absent, Bool(TRUE)}}

OptionsSet == OriginFamily \cup PreflightFamily \cup ValuesFamily

Request(method, origin, requestHeaders) ==
  [method |-> method,
   headers |-> [NewHeaders EXCEPT !["origin"] = origin,
                                  !["access-control-request-headers"] = requestHeaders]]

Requests ==
  {Request(m, o, h) :
     m \in {"GET", "POST", "OPTIONS"},
     o \in {<<>>, <<"">>, <<"https://vercel.com">>, <<"https://foo.com">>},
     h \in {<<>>, <<"">>, <<"x-header-1, x-header-2">>}}

PreVaryNames == <<"Foo", "Accept-Encoding", "Accept-Language", "Cookie">>

\* a response that already carries every header cors may write, and n Vary entries
PriorHeaders(n) ==
  [k \in HeaderNames |->
     CASE k = "vary" -> SubSeq(PreVaryNames, 1, n)
       [] k \in {"origin", "access-control-request-headers"} -> <<>>
       [] k = "content-length" -> <<"3">>
       [] OTHER -> <<"old">>]

\* what an origin function may throw or reject with
Errors == {"TypeError: lookup failed", "Error: denied"}

\* how a function answered: true, false, another value, or a failure
ResultKind(value) ==
  CASE value = Bool(TRUE) -> "true"
    [] value = Bool(FALSE) -> "false"
    [] OTHER -> "other"

\* the responses a caller passes in
Responses ==
  {Response(1, 200, "", NewHeaders),
   Response(1, 200, "{}", HeadersSet(NewHeaders, "Content-Type", "application/json"))}
    \cup {Response(1, 201, "old", PriorHeaders(n)) : n \in 1..MaxPreVary}

(***************************************************************************)
(* The state machine.                                                       *)
(***************************************************************************)
\* the calls that may be in flight together, and the identity of the Response
\* each is given; the Response a call makes takes the next one
CallIds == 1..MaxCalls
InputRef(i) == 2 * i - 1

\* what the invocation of origin at line 149 gives at once: nothing when origin
\* is no function, else a promise still pending, a value (returned as it is or
\* in a promise already fulfilled), a throw, or a promise already rejected
Outcome(kind, value, error) == [kind |-> kind, value |-> value, error |-> error]

OutcomesOf(origin, results, errors) ==
  IF origin.t # "function" THEN {Outcome("none", Undef, "")}
  ELSE {Outcome("pending", Undef, "")}
         \cup {Outcome("value", v, "") : v \in results}
         \cup {Outcome(k, Undef, e) : k \in {"throws", "rejected"}, e \in errors}

\* originHeadersFromReq has returned nothing (yet)
NoOriginHeaders == [has |-> FALSE, headers |-> NewHeaders]

\* originHeadersFromReq as far as it runs when cors calls it at line 183: to its
\* return when origin is no function, to the throw when the function throws,
\* else to the await of line 149
fromReqCalled(origin, rOrigin, out) ==
  CASE out.kind = "none" ->
         [inner |-> "returned", resolved |-> origin, thrown |-> "",
          originHeaders |-> originHeadersFromReq(rOrigin, origin)]
    [] out.kind = "pending" ->
         [inner |-> "pending", resolved |-> Undef, thrown |-> "",
          originHeaders |-> NoOriginHeaders]
    [] out.kind = "value" ->
         [inner |-> "queued", resolved |-> out.value, thrown |-> "",
          originHeaders |-> NoOriginHeaders]
    [] out.kind = "rejected" ->
         [inner |-> "queued", resolved |-> Undef, thrown |-> out.error,
          originHeaders |-> NoOriginHeaders]
    [] out.kind = "throws" ->
         [inner |-> "threw", resolved |-> Undef, thrown |-> out.error,
          originHeaders |-> NoOriginHeaders]

\* the frame of a call not made yet
IdleFrame ==
  [pc |-> "idle", req |-> Request("GET", <<>>, <<>>), ref |-> 0, pre |-> NoResponse,
   opts |-> EmptyObject, reqOrigin |-> Undef, resolved |-> Undef, inner |-> "idle",
   originHeaders |-> NoOriginHeaders, writes |-> <<>>, ret |-> 0, thrown |-> "",
   failure |-> ""]

\* no call in flight
NoCalls ==
  /\ calls = [i \in CallIds |-> IdleFrame]
  /\ store = [ref \in 1..(2 * MaxCalls) |-> NoResponse]
  /\ latest = 0

\* no call of Spec made yet
NoCall ==
  /\ req = Request("GET", <<>>, <<>>)
  /\ res = NoResponse
  /\ pre = NoResponse
  /\ opts = EmptyObject
  /\ reqOrigin = Undef
  /\ resolved = Undef
  /\ inner = "idle"
  /\ originHeaders = NoOriginHeaders
  /\ writes = <<>>
  /\ ret = NoResponse
  /\ pc = "idle"
  /\ invoked = <<>>
  /\ thrown = ""
  /\ failure = ""
  /\ earlier = "none"

Init ==
  /\ options \in OptionsSet
  /\ NoCall
  /\ NoCalls

\* cors(r, rs, options) is called and runs until it yields at line 183:
\* originHeadersFromReq has run as far as it goes at once, the origin function
\* has been invoked if there is one
Call(r, rs) ==
  /\ pc = "idle"
  /\ LET m == MergeOptions(defaultOptions, options)
     IN  /\ options' = m.options
         /\ opts' = m.opts
  /\ req' = r
  /\ res' = rs
  /\ pre' = rs
  /\ reqOrigin' = requestOrigin(r)
  /\ invoked' = originCalls(originArg(opts'), requestOrigin(r), r)
  /\ \E out \in OutcomesOf(originArg(opts'), FnResults, Errors) :
       LET s == fromReqCalled(originArg(opts'), requestOrigin(r), out)
       IN  /\ inner' = s.inner
           /\ resolved' = s.resolved
           /\ thrown' = s.thrown
           /\ originHeaders' = s.originHeaders
  /\ writes' = <<>>
  /\ ret' = NoResponse
  /\ pc' = "awaiting"
  /\ failure' = ""
  /\ UNCHANGED earlier
  /\ UNCHANGED concVars

\* the promise the origin function returned fulfils: the resumption of
\* originHeadersFromReq is queued
OriginResolves ==
  /\ pc = "awaiting"
  /\ inner = "pending"
  /\ \E value \in FnResults : resolved' = value
  /\ inner' = "queued"
  /\ UNCHANGED <<options, req, res, pre, opts, reqOrigin, originHeaders, writes, ret,
                 pc, invoked, thrown, failure, earlier>>
  /\ UNCHANGED concVars

\* the promise the origin function returned rejects
OriginRejects ==
  /\ pc = "awaiting"
  /\ inner = "pending"
  /\ \E e \in Errors : thrown' = e
  /\ inner' = "queued"
  /\ UNCHANGED <<options, req, res, pre, opts, reqOrigin, resolved, originHeaders,
                 writes, ret, pc, invoked, failure, earlier>>
  /\ UNCHANGED concVars

\* originHeadersFromReq resumes at line 149 with the value and runs lines
\* 151-152; cors is still at line 183
FromReqReturns ==
  /\ pc = "awaiting"
  /\ inner = "queued"
  /\ thrown = ""
  /\ LET a == awaitedValue(options, resolved)
     IN  /\ options' = a.options
         /\ originHeaders' = originHeadersFromReq(reqOrigin, a.value)
  /\ inner' = "returned"
  /\ UNCHANGED <<req, res, pre, opts, reqOrigin, resolved, writes, ret, pc, invoked,
                 thrown, failure, earlier>>
  /\ UNCHANGED concVars

\* originHeadersFromReq resumes at line 149, where the await throws what the
\* promise of origin rejected with
FromReqThrows ==
  /\ pc = "awaiting"
  /\ inner = "queued"
  /\ thrown # ""
  /\ inner' = "threw"
  /\ UNCHANGED <<options, req, res, pre, opts, reqOrigin, resolved, originHeaders,
                 writes, ret, pc, invoked, thrown, failure, earlier>>
  /\ UNCHANGED concVars

\* lines 184-230, from what originHeadersFromReq returned
Finish ==
  LET out == corsAfterOrigin(req, res, opts, originHeaders)
  IN  /\ res' = [res EXCEPT !.headers = out.headers]
      /\ ret' = out.ret
      /\ writes' = out.log
      /\ pc' = "returned"
      /\ UNCHANGED <<options, req, pre, opts, reqOrigin, resolved, inner,
                     originHeaders, invoked, thrown, failure, earlier>>
      /\ UNCHANGED concVars

\* cors resumes at line 183 with what originHeadersFromReq returned
Resume ==
  /\ pc = "awaiting"
  /\ inner = "returned"
  /\ Finish

\* a failure caught at line 183 and taken for a refusal
RethrowRecovered ==
  /\ pc = "awaiting"
  /\ inner = "threw"
  /\ ret' = res
  /\ pc' = "returned"
  /\ UNCHANGED <<options, req, res, pre, opts, reqOrigin, resolved, inner,
                 originHeaders, writes, invoked, thrown, failure, earlier>>
  /\ UNCHANGED concVars

\* cors resumes at line 183, where the await throws the failure of
\* originHeadersFromReq: nothing catches it, so the promise of cors rejects
\* with the same failure
Rethrow ==
  /\ pc = "awaiting"
  /\ inner = "threw"
  /\ failure' = thrown
  /\ pc' = "threw"
  /\ UNCHANGED <<options, req, res, pre, opts, reqOrigin, resolved, inner,
                 originHeaders, writes, ret, invoked, thrown, earlier>>
  /\ UNCHANGED concVars

\* the caller has its answer, a Response or a failure, and the call's frame is
\* gone: the caller may call again, with the same configuration object
Completed ==
  /\ pc \in {"returned", "threw"}
  /\ req' = Request("GET", <<>>, <<>>)
  /\ res' = NoResponse
  /\ pre' = NoResponse
  /\ opts' = EmptyObject
  /\ reqOrigin' = Undef
  /\ resolved' = Undef
  /\ inner' = "idle"
  /\ originHeaders' = NoOriginHeaders
  /\ writes' = <<>>
  /\ ret' = NoResponse
  /\ pc' = "idle"
  /\ invoked' = <<>>
  /\ thrown' = ""
  /\ failure' = ""
  /\ earlier' = IF invoked = <<>> THEN earlier
                ELSE IF pc = "threw" THEN "threw" ELSE ResultKind(resolved)
  /\ UNCHANGED options
  /\ UNCHANGED concVars

Next ==
  \/ \E r \in Requests, rs \in Responses : Call(r, rs)
  \/ OriginResolves
  \/ OriginRejects
  \/ FromReqReturns
  \/ FromReqThrows
  \/ Resume
  \/ Rethrow
  \/ Completed

Spec == Init /\ [][Next]_vars

(***************************************************************************)
(* Calls in flight together: one configuration object, one Response each.   *)
(***************************************************************************)
ConcurrentOptions ==
  {Options(o, Absent, Absent, Absent, Bool(TRUE), Absent, p, Absent) :
     o \in {Fn, Bool(TRUE)},
     p \in {Absent, Bool(TRUE)}}

\* the request and the Response of a call
ConcurrentInputs ==
  {[req |-> Request("GET", <<"https://vercel.com">>, <<>>),
    res |-> Response(1, 200, "", NewHeaders)],
   [req |-> Request("OPTIONS", <<"https://foo.com">>, <<>>),
    res |-> Response(1, 201, "old", PriorHeaders(1))]}

ConcurrentResults == {Bool(TRUE), Bool(FALSE)}

ConcurrentErrors == {"Error: denied"}

InitConcurrent ==
  /\ options \in ConcurrentOptions
  /\ NoCall
  /\ NoCalls

\* a headers binding shared by the calls: it denotes the headers of the
\* Response given to the call made last
headersOfLatest(i, last) == last

\* line 182: the call whose Response the headers const of call i denotes
headersOf(i, last) == i

\* call i is made, with its own Response, and runs until it yields at line 183
Start(i, r, rs) ==
  /\ calls[i].pc = "idle"
  /\ LET m == MergeOptions(defaultOptions, options)
         own == [rs EXCEPT !.ref = InputRef(i)]
     IN  /\ options' = m.options
         /\ \E out \in OutcomesOf(originArg(m.opts), ConcurrentResults, ConcurrentErrors) :
              LET s == fromReqCalled(originArg(m.opts), requestOrigin(r), out)
              IN  calls' = [calls EXCEPT ![i] =
                    [IdleFrame EXCEPT !.pc = "awaiting", !.req = r,
                                      !.ref = InputRef(i), !.pre = own,
                                      !.opts = m.opts,
                                      !.reqOrigin = requestOrigin(r),
                                      !.inner = s.inner, !.resolved = s.resolved,
                                      !.thrown = s.thrown,
                                      !.originHeaders = s.originHeaders]]
         /\ store' = [store EXCEPT ![InputRef(i)] = own]
  /\ latest' = i
  /\ UNCHANGED seqVars

\* the promise the origin function returned to call i fulfils
ResolveCall(i) ==
  /\ calls[i].pc = "awaiting"
  /\ calls[i].inner = "pending"
  /\ \E value \in ConcurrentResults :
       calls' = [calls EXCEPT ![i].resolved = value, ![i].inner = "queued"]
  /\ UNCHANGED <<options, store, latest, seqVars>>

\* the promise the origin function returned to call i rejects
RejectCall(i) ==
  /\ calls[i].pc = "awaiting"
  /\ calls[i].inner = "pending"
  /\ \E e \in ConcurrentErrors :
       calls' = [calls EXCEPT ![i].thrown = e, ![i].inner = "queued"]
  /\ UNCHANGED <<options, store, latest, seqVars>>

\* originHeadersFromReq of call i resumes at line 149 with the value and runs
\* lines 151-152
FromReqReturnsCall(i) ==
  /\ calls[i].pc = "awaiting"
  /\ calls[i].inner = "queued"
  /\ calls[i].thrown = ""
  /\ LET a == awaitedValue(options, calls[i].resolved)
     IN  /\ options' = a.options
         /\ calls' = [calls EXCEPT
                        ![i].originHeaders =
                           originHeadersFromReq(calls[i].reqOrigin, a.value),
                        ![i].inner = "returned"]
  /\ UNCHANGED <<store, latest, seqVars>>

\* originHeadersFromReq of call i resumes at line 149, where the await throws
FromReqThrowsCall(i) ==
  /\ calls[i].pc = "awaiting"
  /\ calls[i].inner = "queued"
  /\ calls[i].thrown # ""
  /\ calls' = [calls EXCEPT ![i].inner = "threw"]
  /\ UNCHANGED <<options, store, latest, seqVars>>

\* lines 184-230 of call i, from what originHeadersFromReq returned
FinishCall(i) ==
  LET f == calls[i]
      target == calls[headersOf(i, latest)].ref
      rs == [store[f.ref] EXCEPT !.headers = store[target].headers]
      out == corsAfterOrigin(f.req, rs, f.opts, f.originHeaders)
      written == [store EXCEPT ![target].headers = out.headers]
  IN  /\ store' = IF out.ret.ref = f.ref THEN written
                  ELSE [written EXCEPT ![out.ret.ref] = out.ret]
      /\ calls' = [calls EXCEPT ![i].pc = "returned", ![i].writes = out.log,
                                ![i].ret = out.ret.ref]
      /\ UNCHANGED <<options, latest, seqVars>>

\* call i resumes at line 183 with what originHeadersFromReq returned
ResumeCall(i) ==
  /\ calls[i].pc = "awaiting"
  /\ calls[i].inner = "returned"
  /\ FinishCall(i)

\* call i resumes at line 183, where the await throws: its promise rejects
RethrowCall(i) ==
  /\ calls[i].pc = "awaiting"
  /\ calls[i].inner = "threw"
  /\ calls' = [calls EXCEPT ![i].pc = "threw", ![i].failure = calls[i].thrown]
  /\ UNCHANGED <<options, store, latest, seqVars>>

NextConcurrent ==
  \/ \E i \in CallIds, c \in ConcurrentInputs : Start(i, c.req, c.res)
  \/ \E i \in CallIds : ResolveCall(i)
  \/ \E i \in CallIds : RejectCall(i)
  \/ \E i \in CallIds : FromReqReturnsCall(i)
  \/ \E i \in CallIds : FromReqThrowsCall(i)
  \/ \E i \in CallIds : ResumeCall(i)
  \/ \E i \in CallIds : RethrowCall(i)

SpecConcurrent == InitConcurrent /\ [][NextConcurrent]_vars

(***************************************************************************)
(* Vocabulary of the properties.                                            *)
(***************************************************************************)
Returned == pc = "returned"

\* the positions of the call's operations on one header
WritesTo(name) == {i \in DOMAIN writes : writes[i].k = Lower(name)}

\* the positions at which the call appended value to Vary
VaryAppends(value) ==
  {i \in DOMAIN writes : writes[i] = [op |-> "append", k |-> "vary", v |-> value]}

\* the call set the header, to this value only, and the header now holds it alone
SetTo(name, value) ==
  /\ WritesTo(name) # {}
  /\ \A i \in WritesTo(name) : writes[i].op = "set" /\ writes[i].v = value
  /\ res.headers[Lower(name)] = <<value>>

\* the headers present, each with the value headers.get gives
Present(h) == [k \in {j \in HeaderNames : h[j] # <<>>} |-> HeadersGet(h, k).s]

\* the call returned the object it was given, status and body as they were
ReturnedSame ==
  /\ ret = res
  /\ ret.ref = pre.ref
  /\ ret.status = pre.status
  /\ ret.body = pre.body

\* the value the caller gave for an option, undefined when it gave none
Given(key) == Prop(options, key)

(***************************************************************************)
(* C1: a call to cors never changes the caller's options object: no step of *)
(* a call adds, removes or alters a field of it, also when origin is a      *)
(* function; the defaults go into the call's own working copy.              *)
(***************************************************************************)
C1_OptionsNeverMutated ==
  [][/\ options' = options
     /\ pc' = "awaiting" =>
          /\ \A k \in DOMAIN options : opts'[k] = options[k]
          /\ \A k \in DOMAIN defaultOptions \ DOMAIN options :
               opts'[k] = defaultOptions[k]]_vars

\* a call has returned under a function origin, its working copy holding
\* defaults the caller's object lacks
C1_Witness ==
  /\ Returned
  /\ Given("origin") = Fn
  /\ DOMAIN opts # DOMAIN options
  /\ "methods" \notin DOMAIN options

(***************************************************************************)
(* C2: when the resolved origin is falsy, cors returns the response it was  *)
(* given and has made no operation on its headers, whatever the request and *)
(* the other options are.                                                   *)
(***************************************************************************)
C2_FalsyOriginUntouched ==
  (Returned /\ ~Truthy(resolved)) =>
    /\ ReturnedSame
    /\ writes = <<>>
    /\ res.headers = pre.headers
    /\ ret.headers = pre.headers

\* a preflight under a function origin that resolved to a falsy value, with
\* credentials and the other options set
C2_Witness ==
  /\ Returned
  /\ ~Truthy(resolved)
  /\ Given("origin") = Fn
  /\ req.method = "OPTIONS"
  /\ Given("credentials") = Bool(TRUE)
  /\ Given("maxAge").t = "number"
  /\ HeadersHas(req.headers, "Origin")

\* the answer to a preflight: a new Response with the configured status, no body
C3_PreflightAnswer ==
  /\ ret.ref # pre.ref
  /\ ret.ref # 0
  /\ ret.status = (IF "optionsSuccessStatus" \in DOMAIN options
                   THEN options["optionsSuccessStatus"].n ELSE 204)
  /\ ret.body = ""

(***************************************************************************)
(* C3 as stated: every OPTIONS request handled with preflightContinue false *)
(* is answered with a new Response, distinct from the one passed in, with   *)
(* status optionsSuccessStatus (204 unless overridden) and an empty body.   *)
(***************************************************************************)
C3_Original ==
  (Returned /\ req.method = "OPTIONS" /\ ~Truthy(Given("preflightContinue")))
    => C3_PreflightAnswer

(***************************************************************************)
(* C3 amended: every OPTIONS request whose resolved origin is not falsy,    *)
(* handled with preflightContinue false, is answered with a new Response,   *)
(* distinct from the one passed in, with status optionsSuccessStatus (204   *)
(* unless overridden) and an empty body.                                    *)
(***************************************************************************)
C3_NewResponseOnPreflight ==
  (Returned /\ req.method = "OPTIONS" /\ ~Truthy(Given("preflightContinue"))
     /\ Truthy(resolved))
    => C3_PreflightAnswer

\* a preflight answered with the default status although the response passed
\* in had a body and another status
C3_Witness ==
  /\ Returned
  /\ req.method = "OPTIONS"
  /\ Truthy(resolved)
  /\ "preflightContinue" \notin DOMAIN options
  /\ "optionsSuccessStatus" \notin DOMAIN options
  /\ pre.body # ""
  /\ ret.status = 204
  /\ ret.status # pre.status

(***************************************************************************)
(* C4: an OPTIONS request without Origin and Access-Control-Request-Headers,*)
(* a response without headers and no options give status 204 and exactly    *)
(* the four headers of the default preflight answer.                        *)
(***************************************************************************)
C4_DefaultPreflight ==
  (/\ Returned
   /\ req = Request("OPTIONS", <<>>, <<>>)
   /\ pre.headers = NewHeaders
   /\ options = EmptyObject)
    => /\ ret.status = 204
       /\ Present(ret.headers) =
            [k \in {"access-control-allow-origin", "access-control-allow-methods",
                    "content-length", "vary"} |->
               CASE k = "access-control-allow-origin" -> "*"
                 [] k = "access-control-allow-methods" ->
                      "GET,HEAD,PUT,PATCH,POST,DELETE"
                 [] k = "content-length" -> "0"
                 [] k = "vary" -> "Access-Control-Request-Headers"]

C4_Witness ==
  /\ Returned
  /\ req = Request("OPTIONS", <<>>, <<>>)
  /\ pre.headers = NewHeaders
  /\ options = EmptyObject
  /\ ret.ref # pre.ref

(***************************************************************************)
(* C5: for a request whose method is not OPTIONS, cors returns the response *)
(* it was given, never writes Allow-Methods, Allow-Headers, Max-Age or      *)
(* Content-Length and never appends Access-Control-Request-Headers to Vary, *)
(* whatever the options are; with no options its only operation is setting *)
(* Access-Control-Allow-Origin to "*".                                      *)
(***************************************************************************)
C5_NormalRequest ==
  (Returned /\ req.method # "OPTIONS") =>
    /\ ReturnedSame
    /\ WritesTo("Access-Control-Allow-Methods") = {}
    /\ WritesTo("Access-Control-Allow-Headers") = {}
    /\ WritesTo("Access-Control-Max-Age") = {}
    /\ WritesTo("Content-Length") = {}
    /\ \A i \in DOMAIN writes : writes[i].v # "Access-Control-Request-Headers"
    /\ \A k \in {"access-control-allow-methods", "access-control-allow-headers",
                 "access-control-max-age", "content-length"} :
         res.headers[k] = pre.headers[k]
    /\ options = EmptyObject =>
         /\ writes = <<[op |-> "set", k |-> "access-control-allow-origin", v |-> "*"]>>
         /\ res.headers =
              [pre.headers EXCEPT !["access-control-allow-origin"] = <<"*">>]

\* a POST under an origin that is reflected, with methods, allowedHeaders and
\* maxAge all configured and a body on the response
C5_Witness ==
  /\ Returned
  /\ req.method = "POST"
  /\ Truthy(resolved)
  /\ Given("methods").t = "array"
  /\ Given("allowedHeaders").t = "array"
  /\ Given("maxAge").t = "number"
  /\ pre.body = "{}"
  /\ WritesTo("Access-Control-Allow-Origin") # {}

(***************************************************************************)
(* C6: for an OPTIONS request with preflightContinue true, cors returns the *)
(* response object it was given (status and body as they were) carrying the *)
(* headers the call wrote; no Response is made and the call does not set    *)
(* Content-Length.                                                          *)
(***************************************************************************)
C6_PreflightContinue ==
  (Returned /\ req.method = "OPTIONS" /\ Truthy(Given("preflightContinue"))) =>
    /\ ReturnedSame
    /\ ret.headers = res.headers
    /\ WritesTo("Content-Length") = {}
    /\ res.headers["content-length"] = pre.headers["content-length"]
    /\ Truthy(resolved) =>
         /\ writes # <<>>
         /\ \A i \in DOMAIN writes :
              IF writes[i].op = "set"
              THEN ret.headers[writes[i].k] = <<writes[i].v>>
              ELSE \E j \in DOMAIN ret.headers[writes[i].k] :
                     /\ j > Len(pre.headers[writes[i].k])
                     /\ ret.headers[writes[i].k][j] = writes[i].v

\* a continued preflight that wrote its headers on a response with a body
C6_Witness ==
  /\ Returned
  /\ req.method = "OPTIONS"
  /\ Given("preflightContinue") = Bool(TRUE)
  /\ Truthy(resolved)
  /\ pre.body # ""
  /\ WritesTo("Access-Control-Max-Age") # {}
  /\ ret.headers # pre.headers

(***************************************************************************)
(* C7: when the resolved origin is "*" the call appends no Origin to Vary;  *)
(* for every other resolved origin that is not falsy it appends Origin to   *)
(* Vary exactly once, also when the request origin is absent or does not    *)
(* match and Access-Control-Allow-Origin is not set.                        *)
(***************************************************************************)
C7_VaryOrigin ==
  Returned =>
    /\ resolved = Str("*") =>
         /\ VaryAppends("Origin") = {}
         /\ \A i \in WritesTo("Vary") : writes[i].v # "Origin"
    /\ (Truthy(resolved) /\ resolved # Str("*")) =>
         /\ Cardinality(VaryAppends("Origin")) = 1
         /\ \A i \in WritesTo("Vary") : writes[i].op = "append"
         /\ Len(res.headers["vary"]) >= Len(pre.headers["vary"]) + 1

\* a list origin that matches nothing: Vary gets Origin, Allow-Origin is not set
C7_Witness ==
  /\ Returned
  /\ resolved.t = "array"
  /\ HeadersHas(req.headers, "Origin")
  /\ WritesTo("Access-Control-Allow-Origin") = {}
  /\ Cardinality(VaryAppends("Origin")) = 1

\* the caller gave no value for the option
NotProvided(key) == Given(key).t = "undefined"

\* the entry the origin step appends to Vary
VaryOrigin ==
  IF Truthy(resolved) /\ resolved # Str("*") THEN <<"Origin">> ELSE <<>>

\* the call left Vary holding these entries, on res and on the Response returned
VaryIs(entries) ==
  /\ res.headers["vary"] = entries
  /\ HeadersGet(res.headers, "Vary") =
       (IF entries = <<>> THEN Null ELSE Str(Join(entries, ", ")))
  /\ HeadersGet(ret.headers, "Vary") = HeadersGet(res.headers, "Vary")
  /\ \A i \in WritesTo("Vary") : writes[i].op = "append"

\* every header but Vary that the call wrote holds the last value written alone
OthersReplaced ==
  \A i \in DOMAIN writes :
    writes[i].k # "vary" =>
      /\ writes[i].op = "set"
      /\ \E j \in WritesTo(writes[i].k) :
           /\ \A m \in WritesTo(writes[i].k) : m <= j
           /\ res.headers[writes[i].k] = <<writes[j].v>>
           /\ ret.headers[writes[i].k] = <<writes[j].v>>

(***************************************************************************)
(* C8 as stated: after a call the Vary value of the response is its value   *)
(* before the call followed by Origin (when the resolved origin is neither  *)
(* falsy nor "*") and then Access-Control-Request-Headers (when the request *)
(* is OPTIONS and allowedHeaders is not provided), joined with ", "; every  *)
(* other header the call writes replaces the value it had.                  *)
(***************************************************************************)
C8_Original ==
  Returned =>
    /\ VaryIs(pre.headers["vary"] \o VaryOrigin
                \o (IF req.method = "OPTIONS" /\ NotProvided("allowedHeaders")
                    THEN <<"Access-Control-Request-Headers">> ELSE <<>>))
    /\ OthersReplaced

(***************************************************************************)
(* C8 amended: as stated, but Access-Control-Request-Headers is appended    *)
(* when the request is OPTIONS, allowedHeaders is not provided and the      *)
(* resolved origin is not falsy.                                            *)
(***************************************************************************)
C8_VaryAppended ==
  Returned =>
    /\ VaryIs(pre.headers["vary"] \o VaryOrigin
                \o (IF /\ req.method = "OPTIONS"
                       /\ NotProvided("allowedHeaders")
                       /\ Truthy(resolved)
                    THEN <<"Access-Control-Request-Headers">> ELSE <<>>))
    /\ OthersReplaced

\* "Foo" before the call, "Foo, Origin, Access-Control-Request-Headers" after,
\* and an Allow-Origin that replaced the one the response carried
C8_Witness ==
  /\ Returned
  /\ pre.headers["vary"] = <<"Foo">>
  /\ HeadersGet(res.headers, "Vary") =
       Str("Foo, Origin, Access-Control-Request-Headers")
  /\ pre.headers["access-control-allow-origin"] = <<"old">>
  /\ res.headers["access-control-allow-origin"] = <<"https://vercel.com">>

\* whether a boolean, a string or a regexp allows an origin
ElementAllows(e, o) ==
  CASE e.t = "string" -> e.s = o
    [] e.t = "regexp" -> RegExpTest(e, o)
    [] e.t = "boolean" -> e.b

\* whether a resolved origin allows an origin
Allows(v, o) ==
  IF v.t = "array" THEN \E i \in DOMAIN v.l : ElementAllows(v.l[i], o)
  ELSE ElementAllows(v, o)

\* the Origin header of the request, "" when it has none
OriginOfRequest == Join(req.headers["origin"], ", ")

\* Allow-Origin reflects the request's origin exactly when it is allowed
Reflected ==
  resolved.t \in {"boolean", "regexp", "array"} =>
    IF OriginOfRequest # "" /\ Allows(resolved, OriginOfRequest)
    THEN SetTo("Access-Control-Allow-Origin", OriginOfRequest)
    ELSE /\ WritesTo("Access-Control-Allow-Origin") = {}
         /\ res.headers["access-control-allow-origin"] =
              pre.headers["access-control-allow-origin"]

(***************************************************************************)
(* C9 as stated: under a resolved origin that is a boolean, a regexp or a   *)
(* list, Access-Control-Allow-Origin is set to the request's Origin exactly *)
(* when the request has a non-empty Origin and that origin is allowed (a    *)
(* list by one of its elements, a string by equality, a regexp by its test, *)
(* a boolean by being true), and is not written otherwise; under a fixed    *)
(* string other than "*" it is set to that string.                          *)
(***************************************************************************)
C9_Original ==
  Returned =>
    /\ Reflected
    /\ (resolved.t = "string" /\ resolved # Str("*")) =>
         SetTo("Access-Control-Allow-Origin", resolved.s)

(***************************************************************************)
(* C9 amended: as stated, but the fixed string is a non-empty string other  *)
(* than "*" (an empty string is falsy and writes nothing).                  *)
(***************************************************************************)
C9_AllowOrigin ==
  Returned =>
    /\ Reflected
    /\ (resolved.t = "string" /\ resolved # Str("*") /\ resolved.s # "") =>
         SetTo("Access-Control-Allow-Origin", resolved.s)

\* a list holding "*" and a regexp reflects the origin the regexp matches
C9_Witness ==
  /\ Returned
  /\ resolved = Arr(<<Str("*"), Re("foo\\.com$")>>)
  /\ OriginOfRequest = "https://foo.com"
  /\ res.headers["access-control-allow-origin"] = <<"https://foo.com">>

\* a list holding "*" alone does not allow the origin of the request
C9_WitnessStar ==
  /\ Returned
  /\ resolved = Arr(<<Str("*")>>)
  /\ OriginOfRequest = "https://vercel.com"
  /\ WritesTo("Access-Control-Allow-Origin") = {}

\* the Access-Control-Request-Headers entries of the request
RequestHeaders == req.headers["access-control-request-headers"]

\* the call left Allow-Headers alone
AllowHeadersOmitted ==
  /\ WritesTo("Access-Control-Allow-Headers") = {}
  /\ res.headers["access-control-allow-headers"] =
       pre.headers["access-control-allow-headers"]

\* case (1): the request's header reflected when present holds
ReflectsRequest(present) ==
  /\ IF present
     THEN SetTo("Access-Control-Allow-Headers", Join(RequestHeaders, ", "))
     ELSE AllowHeadersOmitted
  /\ Cardinality(VaryAppends("Access-Control-Request-Headers")) = 1

\* cases (2) and (3), under the configured value joined
Configured(joined, empty) ==
  /\ IF empty THEN AllowHeadersOmitted
     ELSE SetTo("Access-Control-Allow-Headers", joined)
  /\ VaryAppends("Access-Control-Request-Headers") = {}

\* the configured allowedHeaders as one string
JoinedAllowed ==
  IF Given("allowedHeaders").t = "array"
  THEN Join(Strings(Given("allowedHeaders")), ",")
  ELSE Given("allowedHeaders").s

(***************************************************************************)
(* C10 as stated: on a preflight with a resolved origin that is not falsy,  *)
(* (1) allowedHeaders not provided: Allow-Headers is the request's          *)
(* Access-Control-Request-Headers when it has one, omitted when it has      *)
(* none, and Access-Control-Request-Headers is appended to Vary; (2) empty  *)
(* string or empty array: Allow-Headers omitted, Vary not appended to; (3)  *)
(* non-empty string or array: Allow-Headers is the string or the elements   *)
(* joined with ",", Vary not appended to.                                   *)
(***************************************************************************)
C10_Original ==
  (Returned /\ req.method = "OPTIONS" /\ Truthy(resolved)) =>
    IF NotProvided("allowedHeaders")
    THEN ReflectsRequest(RequestHeaders # <<>>)
    ELSE Configured(JoinedAllowed,
                    Given("allowedHeaders") \in {Str(""), Arr(<<>>)})

(***************************************************************************)
(* C10 amended: as stated, but in (1) Allow-Headers is set when the         *)
(* request's Access-Control-Request-Headers is non-empty and omitted when   *)
(* the request has none or an empty one, and an array whose elements join   *)
(* to the empty string, such as [''], belongs to (2): (3) covers a          *)
(* non-empty string and an array whose joined elements are non-empty.       *)
(***************************************************************************)
C10_AllowedHeaders ==
  (Returned /\ req.method = "OPTIONS" /\ Truthy(resolved)) =>
    IF NotProvided("allowedHeaders")
    THEN ReflectsRequest(Join(RequestHeaders, ", ") # "")
    ELSE Configured(JoinedAllowed, JoinedAllowed = "")

\* the request's headers reflected verbatim
C10_Witness ==
  /\ Returned
  /\ req.method = "OPTIONS"
  /\ Truthy(resolved)
  /\ NotProvided("allowedHeaders")
  /\ res.headers["access-control-allow-headers"] = <<"x-header-1, x-header-2">>
  /\ "Access-Control-Request-Headers" \in {res.headers["vary"][i] :
                                             i \in DOMAIN res.headers["vary"]}

\* an explicit empty string: nothing written although the request asks for headers
C10_WitnessEmpty ==
  /\ Returned
  /\ req.method = "OPTIONS"
  /\ Truthy(resolved)
  /\ Given("allowedHeaders") = Str("")
  /\ RequestHeaders = <<"x-header-1, x-header-2">>
  /\ WritesTo("Access-Control-Allow-Headers") = {}

\* the call left the header alone
Untouched(name) ==
  /\ WritesTo(name) = {}
  /\ res.headers[Lower(name)] = pre.headers[Lower(name)]

\* the configured exposedHeaders as one string, "" when none is given
JoinedExposed ==
  IF Given("exposedHeaders").t = "array"
  THEN Join(Strings(Given("exposedHeaders")), ",")
  ELSE Given("exposedHeaders").s

(***************************************************************************)
(* C11: for every method, under a resolved origin that is not falsy,        *)
(* Access-Control-Expose-Headers is set exactly when exposedHeaders yields  *)
(* a non-empty string, to the string itself or the array elements joined    *)
(* with ","; when exposedHeaders is absent, an empty string or an empty     *)
(* array the call does not write the header.                                *)
(***************************************************************************)
C11_ExposeHeaders ==
  (Returned /\ Truthy(resolved)) =>
    /\ IF JoinedExposed # ""
       THEN SetTo("Access-Control-Expose-Headers", JoinedExposed)
       ELSE Untouched("Access-Control-Expose-Headers")
    /\ Given("exposedHeaders") \in {Undef, Str(""), Arr(<<>>)} =>
         Untouched("Access-Control-Expose-Headers")
    /\ Given("exposedHeaders") = Str("custom-header1,custom-header2") =>
         res.headers["access-control-expose-headers"] =
           <<"custom-header1,custom-header2">>
    /\ Given("exposedHeaders") = StrArr(<<"custom-header1", "custom-header2">>) =>
         res.headers["access-control-expose-headers"] =
           <<"custom-header1,custom-header2">>

\* a GET whose exposed array replaced the header the response carried
C11_Witness ==
  /\ Returned
  /\ req.method = "GET"
  /\ Truthy(resolved)
  /\ Given("exposedHeaders") = StrArr(<<"custom-header1", "custom-header2">>)
  /\ pre.headers["access-control-expose-headers"] = <<"old">>
  /\ res.headers["access-control-expose-headers"] = <<"custom-header1,custom-header2">>

\* a preflight with an explicit empty array: the header is left as it was
C11_WitnessEmpty ==
  /\ Returned
  /\ req.method = "OPTIONS"
  /\ Truthy(resolved)
  /\ Given("exposedHeaders") = Arr(<<>>)
  /\ writes # <<>>
  /\ WritesTo("Access-Control-Expose-Headers") = {}

\* the decimal numerals of the max ages in use
Decimal(n) ==
  CASE n = 0 -> "0"
    [] n = 123 -> "123"
    [] n = 86400 -> "86400"

(***************************************************************************)
(* C12: on a preflight under a resolved origin that is not falsy,           *)
(* Access-Control-Max-Age is set to the decimal string of maxAge whenever   *)
(* maxAge is a number, 0 included; when maxAge is not provided the call     *)
(* does not write the header.                                               *)
(***************************************************************************)
C12_MaxAge ==
  (Returned /\ req.method = "OPTIONS" /\ Truthy(resolved)) =>
    IF Given("maxAge").t = "number"
    THEN SetTo("Access-Control-Max-Age", Decimal(Given("maxAge").n))
    ELSE Untouched("Access-Control-Max-Age")

\* maxAge: 0 gives access-control-max-age: 0
C12_Witness ==
  /\ Returned
  /\ req.method = "OPTIONS"
  /\ Truthy(resolved)
  /\ Given("maxAge") = Num(0)
  /\ HeadersGet(ret.headers, "Access-Control-Max-Age") = Str("0")
  /\ res.headers["access-control-max-age"] = <<"0">>

\* the operations of a log made again, from position i on, on a collection
RECURSIVE Replay(_, _, _)
Replay(h, log, i) ==
  IF i > Len(log) THEN h
  ELSE Replay(IF log[i].op = "set" THEN HeadersSet(h, log[i].k, log[i].v)
                                   ELSE HeadersAppend(h, log[i].k, log[i].v),
              log, i + 1)

(***************************************************************************)
(* C14: on a preflight answered with a synthetic response (resolved origin  *)
(* not falsy, preflightContinue false), Content-Length: 0 is written on the *)
(* input response's own headers too, and the returned response's headers    *)
(* equal that accumulated collection: every header the input response       *)
(* already had, other than those overwritten, plus every header the call    *)
(* wrote.                                                                   *)
(***************************************************************************)
C14_ContentLengthAndCopy ==
  (/\ Returned
   /\ req.method = "OPTIONS"
   /\ Truthy(resolved)
   /\ ~Truthy(Given("preflightContinue"))) =>
    /\ res.ref = pre.ref
    /\ ret.ref # res.ref
    /\ SetTo("Content-Length", "0")
    /\ writes[Len(writes)] = [op |-> "set", k |-> "content-length", v |-> "0"]
    /\ Present(ret.headers) = Present(res.headers)
    /\ Present(ret.headers) = Present(Replay(pre.headers, writes, 1))
    /\ \A k \in HeaderNames :
         WritesTo(k) = {} => HeadersGet(ret.headers, k) = HeadersGet(pre.headers, k)

\* a response that came with Content-Length: 3, a Content-Type and a Vary: the
\* answer carries Content-Length: 0 and so does the response passed in
C14_Witness ==
  /\ Returned
  /\ req.method = "OPTIONS"
  /\ Truthy(resolved)
  /\ ~Truthy(Given("preflightContinue"))
  /\ pre.headers["content-length"] = <<"3">>
  /\ res.headers["content-length"] = <<"0">>
  /\ HeadersGet(ret.headers, "Content-Length") = Str("0")
  /\ HeadersGet(ret.headers, "Content-Type") = Str("old")
  /\ HeadersGet(ret.headers, "Vary") = Str("Foo, Origin")
  /\ ret.ref # pre.ref

\* the function was invoked once, with this origin and the call's request
InvokedOnceWith(origin) == invoked = <<[origin |-> origin, req |-> req]>>

\* the headers of a finished call follow from the result of its own invocation:
\* true reflects the origin of the call's request, a falsy result adds nothing
ResultDecides ==
  Returned =>
    /\ resolved = Bool(TRUE) =>
         /\ Reflected
         /\ OriginOfRequest # "" =>
              res.headers["access-control-allow-origin"] = <<OriginOfRequest>>
         /\ Cardinality(VaryAppends("Origin")) = 1
    /\ ~Truthy(resolved) => (writes = <<>> /\ res.headers = pre.headers /\ ret = res)
    /\ res.headers =
         corsAfterOrigin(req, pre, opts, originHeadersFromReq(reqOrigin, resolved)).headers

\* under a function origin, a call in flight or finished has invoked the
\* function once, with this origin
CallOf(origin) ==
  (Given("origin") = Fn /\ pc \in {"awaiting", "returned", "threw"}) =>
    /\ originArg(opts) = Fn
    /\ InvokedOnceWith(origin)
    /\ ResultDecides

\* no step puts anything in the place of the function
FunctionKept == Given("origin") = Fn => Prop(options', "origin") = Fn

(***************************************************************************)
(* C13 as stated: in any sequence of calls made with one configuration      *)
(* whose origin is a function, every call invokes the function exactly once *)
(* with the origin of its request, absent when the request has no Origin    *)
(* header, and with its request; the headers it writes follow from the      *)
(* result of that invocation alone, and the function is never replaced by   *)
(* an earlier result: true reflects the origin of the request and false     *)
(* adds no headers, in either order.                                        *)
(***************************************************************************)
C13_Original ==
  /\ [][FunctionKept]_vars
  /\ []CallOf(IF HeadersHas(req.headers, "Origin")
              THEN HeadersGet(req.headers, "Origin") ELSE Undef)

(***************************************************************************)
(* C13 amended: as stated, but the origin handed to the function is absent  *)
(* when the request has no Origin header or an empty one.                   *)
(***************************************************************************)
C13_FunctionEachCall ==
  /\ [][FunctionKept]_vars
  /\ []CallOf(IF OriginOfRequest # "" THEN Str(OriginOfRequest) ELSE Undef)

\* the function answered true to the call before, and false to this one, which
\* added no headers
C13_Witness ==
  /\ Returned
  /\ Given("origin") = Fn
  /\ earlier = "true"
  /\ resolved = Bool(FALSE)
  /\ InvokedOnceWith(Str("https://vercel.com"))
  /\ writes = <<>>

\* the other order: false before, true now, and the origin is reflected
C13_WitnessTrueAfterFalse ==
  /\ Returned
  /\ Given("origin") = Fn
  /\ earlier = "false"
  /\ resolved = Bool(TRUE)
  /\ InvokedOnceWith(Str("https://foo.com"))
  /\ res.headers["access-control-allow-origin"] = <<"https://foo.com">>

\* a request with an empty Origin header: the function was handed undefined
C13_WitnessEmptyOrigin ==
  /\ Returned
  /\ Given("origin") = Fn
  /\ req.headers["origin"] = <<"">>
  /\ InvokedOnceWith(Undef)

(***************************************************************************)
(* C15: if the origin function throws or its promise rejects, cors fails    *)
(* with that same failure, with no recovery, no retry and no response       *)
(* returned, and the headers of the input response are exactly as they were *)
(* before the call: no header is written until origin has resolved.         *)
(***************************************************************************)
C15_FailurePropagates ==
  /\ thrown # "" =>
       /\ pc \in {"awaiting", "threw"}
       /\ inner \in {"queued", "threw"}
       /\ pc = "threw" => (inner = "threw" /\ failure = thrown)
       /\ Len(invoked) = 1
       /\ originHeaders = NoOriginHeaders
       /\ ret = NoResponse
       /\ writes = <<>>
       /\ res = pre
  /\ pc = "awaiting" => (writes = <<>> /\ res = pre /\ ret = NoResponse /\ failure = "")
  /\ pc = "threw" => (thrown # "" /\ failure = thrown)
  /\ pc = "returned" => (thrown = "" /\ failure = "" /\ inner = "returned")

\* a preflight with credentials and the other options set, on a response that
\* came with headers, whose origin function failed: cors has failed with it
C15_Witness ==
  /\ pc = "threw"
  /\ thrown = "Error: denied"
  /\ failure = "Error: denied"
  /\ req.method = "OPTIONS"
  /\ Given("credentials") = Bool(TRUE)
  /\ res.headers["vary"] = <<"Foo">>
  /\ res.headers["content-length"] = <<"3">>
  /\ res = pre

\* the same failure before cors has resumed at line 183: its promise is
\* still pending and nothing is written
C15_WitnessPending ==
  /\ pc = "awaiting"
  /\ inner = "threw"
  /\ thrown = "TypeError: lookup failed"
  /\ failure = ""
  /\ Given("credentials") = Bool(TRUE)
  /\ res = pre

\* what call i does when it runs alone: the outcome of cors on its request, the
\* Response it was given and the configuration, under the result it got
Alone(i) ==
  corsAfterOrigin(calls[i].req, calls[i].pre,
                  MergeOptions(defaultOptions, options).opts,
                  originHeadersFromReq(requestOrigin(calls[i].req), calls[i].resolved))

\* the Response of call i is as the call alone leaves it, and so is its answer
AsAlone(i) ==
  /\ calls[i].pc = "idle" => store[InputRef(i)] = NoResponse
  /\ calls[i].pc \in {"awaiting", "threw"} =>
       /\ store[InputRef(i)] = calls[i].pre
       /\ store[InputRef(i) + 1] = NoResponse
       /\ calls[i].writes = <<>>
       /\ calls[i].ret = 0
  /\ calls[i].pc = "returned" =>
       /\ store[InputRef(i)] = [calls[i].pre EXCEPT !.headers = Alone(i).headers]
       /\ calls[i].writes = Alone(i).log
       /\ calls[i].ret = Alone(i).ret.ref
       /\ store[calls[i].ret] = Alone(i).ret

\* a step in which call i does nothing leaves its Responses as they are
NoForeignWrite ==
  \A i \in CallIds :
    calls'[i] = calls[i] =>
      /\ store'[InputRef(i)] = store[InputRef(i)]
      /\ store'[InputRef(i) + 1] = store[InputRef(i) + 1]

(***************************************************************************)
(* C16: when several calls that share one configuration object, each with   *)
(* its own response object, run together, interleaved in any order at the   *)
(* await of the origin function, every call returns the response and leaves *)
(* the headers on its own response that it would if run alone, and no call  *)
(* writes to the response of another.                                       *)
(***************************************************************************)
C16_CallsIsolated ==
  /\ [](\A i \in CallIds : AsAlone(i))
  /\ [][NoForeignWrite]_vars

\* call 2 was made first and stands between its two awaits, lines 151-152
\* done; call 1, made after it, has returned with its headers written, and the
\* response of call 2 is untouched
C16_Witness ==
  /\ latest = 1
  /\ calls[2].pc = "awaiting"
  /\ calls[2].inner = "returned"
  /\ calls[1].pc = "returned"
  /\ calls[1].resolved = Bool(TRUE)
  /\ Given("origin") = Fn
  /\ store[InputRef(1)].headers["access-control-allow-origin"] = <<"https://vercel.com">>
  /\ store[InputRef(2)] = calls[2].pre
  /\ calls[2].pre.headers["access-control-allow-origin"] = <<"old">>

\* two preflights in flight together got different answers from the function:
\* one has a synthetic answer, the other its own response back, untouched
C16_WitnessBoth ==
  /\ calls[1].pc = "returned"
  /\ calls[2].pc = "returned"
  /\ calls[1].req.method = "OPTIONS"
  /\ calls[2].req.method = "OPTIONS"
  /\ ~Truthy(Given("preflightContinue"))
  /\ calls[1].resolved = Bool(FALSE)
  /\ calls[2].resolved = Bool(TRUE)
  /\ calls[1].ret = InputRef(1)
  /\ calls[2].ret = InputRef(2) + 1
  /\ store[InputRef(1)] = calls[1].pre
  /\ store[calls[2].ret].status = 204

====
